---- MODULE Spec2Model ----
(***************************************************************************)
(* Model of lalog's Logger (src/lib/index.ts): the process-wide level      *)
(* threshold, Logger construction, the write path with its transient       *)
(* buffer and one-time trigger, and the timer helpers.                     *)
(*                                                                         *)
(* JavaScript values are modelled as follows.                              *)
(*   - An object is a function from its own keys (strings) to values.      *)
(*   - A string that the code splits or searches (an error stack) is a     *)
(*     sequence of lines, each line a sequence of path segments; the empty *)
(*     sequence stands for a falsy stack (undefined or '').                *)
(*   - An identifier (errorId, trackId) is a triple <<origin, l, n>>.      *)
(*   - A record built by write is an object; the buffer and the delivery   *)
(*     calls hold references to records, and a record is referred to by    *)
(*     the number of the write (of its Logger) that built it.              *)
(*   - write is an async function: one action runs it up to the point      *)
(*     where it hands a promise back (Write), another settles the          *)
(*     delivery promise and runs the continuation (Settle).                *)
(*                                                                         *)
(* Four specifications share the actions: Spec is a program with one       *)
(* Logger that writes, SpecTimers a program that also uses the timers,     *)
(* SpecLoggers a program with two Loggers that share the threshold, and    *)
(* SpecRecords a program whose events and presets exercise every branch of *)
(* the record construction.                                                *)
(***************************************************************************)
EXTENDS Integers, Sequences, FiniteSets, TLC

\* ------------------------------------------------------------------ bounds
\* The model stops issuing writes of record-like events after MaxWrites of them
MaxWrites == 3

\* --------------------------------------------------------------- constants
levels == <<"trace", "info", "warn", "error", "fatal", "security">>

LevelIndexes == 0 .. (Len(levels) - 1)

\* levels[i] with JavaScript's zero-based index
LevelAt(i) == levels[i + 1]

\* levels.indexOf(name): -1 when name is not a level
IndexOf(name) ==
  IF \E i \in LevelIndexes : LevelAt(i) = name
  THEN CHOOSE i \in LevelIndexes : LevelAt(i) = name
  ELSE -1

errorLevel == IndexOf("error")

\* process.env.LALOG_LEVEL: unset, not a level, or a level name
EnvLevels == {"", "verbose", "trace", "info", "warn", "error", "fatal", "security"}

getInitialLogLevel(laLogLevel) ==
  IF IndexOf(laLogLevel) >= 0 THEN IndexOf(laLogLevel) ELSE errorLevel

\* process.env.NODE_ENV
NodeEnv == "test"

\* ------------------------------------------------------------ value helpers
Has(obj, k) == k \in DOMAIN obj

EmptyObject == [k \in {} |-> 0]

\* { ...a, ...b }: b's own keys win
Spread(a, b) ==
  [k \in (DOMAIN a) \cup (DOMAIN b) |-> IF k \in DOMAIN b THEN b[k] ELSE a[k]]

\* obj with key k set to v
With(obj, k, v) == Spread(obj, [x \in {k} |-> v])

\* delete obj[k]
Without(obj, k) == [x \in (DOMAIN obj) \ {k} |-> obj[x]]

\* v4(): a fresh identifier; the generator never repeats itself, so the identifier
\* is named after the call that draws it: Logger l's n-th write (0: its constructor)
v4(l, n) == <<"uuid", l, n>>

\* A falsy identifier ('')
EmptyId == <<"", "", 0>>

\* ------------------------------------------------------------------ inputs
\* The Logger instances a program may construct
LoggerIds == {"A", "B"}

\* A program that constructs one Logger
OneLogger == {"A"}

\* Timer labels
Labels == {"db"}

\* utils.isObject: whether a value is a plain record-like object.  A value is
\* modelled as [type |-> typeof-like tag, fields |-> its own keys and values].
isObject(v) == v.type = "object"

Obj(fields) == [type |-> "object", fields |-> fields]

NotAnObject(t) == [type |-> t, fields |-> EmptyObject]

AppFrame == <<"at", "src", "app.js">>

DepFrame == <<"at", "node_modules", "express", "router.js">>

LibFrame == <<"at", "src", "lib", "index.js">>

\* An Error with a message and a stack ("Error: boom\n at ...\n at ...")
BoomErr == [message |-> "boom",
            stack |-> << <<"Error: boom">>, AppFrame, DepFrame, AppFrame >>]

\* An err value that was built by hand and has no stack
BareErr == [message |-> "bare", stack |-> << >>]

\* What `new Error().stack` can give: the current stack, or undefined on an
\* engine without the non-standard stack property
NodeStack == << <<"Error">>, LibFrame, DepFrame, AppFrame >>

AllCaptures == { NodeStack, << >> }

\* Node (V8) always captures a stack
Captures == { NodeStack }

\* An express request, with a field parseReq does not keep
SomeReq == [body |-> "b", headers |-> "h", method |-> "GET", params |-> "p",
            path |-> "/x", query |-> "q", url |-> "/x?q", socket |-> "s"]

\* The logData values a caller passes to write
PlainEvent == Obj([msg |-> "hello"])

ErrEvent == Obj([err |-> BoomErr])

Events ==
  { PlainEvent,
    ErrEvent,
    NotAnObject("string") }

\* The optional third argument of write; NoResponse is its absence
NoResponse == [res |-> "", code |-> 0]

Responses == {NoResponse, [res |-> "res", code |-> 500]}

\* The options a caller passes to the constructor
Options(addTrackId, presets, isTransient) ==
  [addTrackId |-> addTrackId, moduleName |-> "mod", presets |-> presets,
   serviceName |-> "svc", isTransient |-> isTransient]

LoggerOptions ==
  { Options(FALSE, NotAnObject("undefined"), TRUE),
    Options(TRUE, Obj([module |-> "pmod", errorId |-> <<"preset", "", 1>>]), FALSE) }

\* The arguments a caller passes to setLevel: nothing, '', an unknown name, a level
NoArgument == "<undefined>"

SetLevelArgs == {NoArgument, "", "verbose"} \cup {LevelAt(i) : i \in LevelIndexes}

\* What Date.now() may read: the wall clock, which a clock adjustment can set back
Clock == {0, 65005}

\* The third argument of timeEnd
ExtraLogData == { NotAnObject("undefined"), Obj([msg |-> "query"]) }

\* ------------------------------------------------------------------- state
VARIABLES
  currentLevelIndex,     \* the process-wide threshold (module variable)
  created,               \* the Logger instances constructed so far
  isTransient,           \* per Logger
  logCollector,          \* per Logger: "null", or "array" (a reference to arrays[l])
  arrays,                \* per Logger: contents of the array its constructor allocated
  isTransientTriggered,  \* per Logger; FALSE stands for undefined
  presets,               \* per Logger
  tag,                   \* per Logger
  timers,                \* per Logger: label -> start time
  pending,               \* delivery calls whose promise has not settled
  nSingle,               \* per Logger: logSingle calls made so far
  nBatch,                \* per Logger: logBatch calls made so far
  nWrites,               \* per Logger: write calls with a record-like event so far
  handedOver,            \* per Logger: the records handed to delivery so far, in order
  last                   \* the call that ran in the last step, and what it did

vars == <<currentLevelIndex, created, isTransient, logCollector, arrays,
          isTransientTriggered, presets, tag, timers, pending,
          nSingle, nBatch, nWrites, handedOver, last>>

loggerVars == <<created, isTransient, logCollector, arrays, isTransientTriggered,
                presets, tag, timers>>

\* The state a step starts in
Before ==
  [currentLevelIndex |-> currentLevelIndex, isTransient |-> isTransient,
   logCollector |-> logCollector, arrays |-> arrays,
   isTransientTriggered |-> isTransientTriggered, timers |-> timers,
   pending |-> pending, nSingle |-> nSingle, nBatch |-> nBatch, nWrites |-> nWrites,
   handedOver |-> handedOver]

\* The record of a step: the call (op, l, levelIndex, logData, response), the state
\* it started in, the record it built (logObj), the delivery calls it made, the
\* replies it sent, the lines it wrote to console.error and what it returned
Step(op, l, levelIndex, logData, response, logObj, calls, replies, console, ret) ==
  [op |-> op, l |-> l, levelIndex |-> levelIndex, logData |-> logData,
   response |-> response, before |-> Before, logObj |-> logObj,
   calls |-> calls, replies |-> replies, console |-> console, ret |-> ret]

NoStep(op, l, ret) ==
  Step(op, l, -1, NotAnObject("undefined"), NoResponse, EmptyObject, << >>, << >>, 0, ret)

Init ==
  /\ \E laLogLevel \in EnvLevels : currentLevelIndex = getInitialLogLevel(laLogLevel)
  /\ created = {}
  /\ isTransient = [l \in LoggerIds |-> FALSE]
  /\ logCollector = [l \in LoggerIds |-> "null"]
  /\ arrays = [l \in LoggerIds |-> << >>]
  /\ isTransientTriggered = [l \in LoggerIds |-> FALSE]
  /\ presets = [l \in LoggerIds |-> EmptyObject]
  /\ tag = [l \in LoggerIds |-> << >>]
  /\ timers = [l \in LoggerIds |-> EmptyObject]
  /\ pending = << >>
  /\ nSingle = [l \in LoggerIds |-> 0]
  /\ nBatch = [l \in LoggerIds |-> 0]
  /\ nWrites = [l \in LoggerIds |-> 0]
  /\ handedOver = [l \in LoggerIds |-> << >>]
  /\ last = NoStep("load", "", "")

\* ------------------------------------------------------------- constructor
\* this.presets = { module: moduleName, ...(isObject(presets) ? presets : {}) }
ConstructPresets(options) ==
  Spread([module |-> options.moduleName],
         IF isObject(options.presets) THEN options.presets.fields ELSE EmptyObject)

\* addTrackId && !this.presets.trackId
NeedsTrackId(options) ==
  options.addTrackId /\ ~Has(ConstructPresets(options), "trackId")

\* new Logger(options) / Logger.create(options)
Create(l, options) ==
  /\ l \notin created
  /\ created' = created \cup {l}
  /\ isTransient' = [isTransient EXCEPT ![l] = options.isTransient]
  /\ logCollector' = [logCollector EXCEPT ![l] = IF options.isTransient THEN "array" ELSE "null"]
  /\ arrays' = [arrays EXCEPT ![l] = << >>]
  /\ presets' = [presets EXCEPT ![l] =
       IF NeedsTrackId(options)
       THEN With(ConstructPresets(options), "trackId", v4(l, 0))
       ELSE ConstructPresets(options)]
  /\ tag' = [tag EXCEPT ![l] = <<options.serviceName, "-", NodeEnv>>]
  /\ timers' = [timers EXCEPT ![l] = EmptyObject]
  /\ last' = NoStep("create", l, "")
  /\ UNCHANGED <<currentLevelIndex, isTransientTriggered, pending,
                 nSingle, nBatch, nWrites, handedOver>>

\* ------------------------------------------------------------ LevelRegistry
getLevel == LevelAt(currentLevelIndex)

SetLevelIndexIgnored(newLevelName) == currentLevelIndex

SetLevelIndexDefaulting(newLevelName) ==
  IF newLevelName = NoArgument \/ newLevelName = ""
  THEN currentLevelIndex
  ELSE IF IndexOf(newLevelName) >= 0 THEN IndexOf(newLevelName) ELSE errorLevel

\* The index setLevel leaves in currentLevelIndex
SetLevelIndex(newLevelName) ==
  IF newLevelName = NoArgument \/ newLevelName = ""
  THEN currentLevelIndex
  ELSE IF IndexOf(newLevelName) >= 0 THEN IndexOf(newLevelName) ELSE currentLevelIndex

\* Logger.setLevel(newLevelName)
SetLevel(newLevelName) ==
  /\ currentLevelIndex' = SetLevelIndex(newLevelName)
  /\ last' = [NoStep("setLevel", "", getLevel) EXCEPT
                !.logData = Obj([newLevelName |-> newLevelName])]
  /\ UNCHANGED <<loggerVars, pending, nSingle, nBatch, nWrites, handedOver>>

\* -------------------------------------------------------------------- write
ParseReqKeys == {"body", "headers", "method", "params", "path", "query", "url", "user"}

\* Logger.parseReq(req): the eight fields, undefined where req has none
parseReq(req) ==
  [k \in ParseReqKeys |-> IF k \in DOMAIN req THEN req[k] ELSE "<undefined>"]

\* Logger.formatMilliseconds(ms): new Date(0) plus ms, as "HH:MM:SS.mmm"
Digits == <<"0", "1", "2", "3", "4", "5", "6", "7", "8", "9">>

Digit(n) == Digits[(n % 10) + 1]

Pad2(n) == Digit(n \div 10) \o Digit(n)

Pad3(n) == Digit(n \div 100) \o Digit(n \div 10) \o Digit(n)

MsPerDay == 86400000

\* toISOString().substr(11, 12) shows the time of day, so the count wraps at a day
formatMilliseconds(milliseconds) ==
  LET t == milliseconds % MsPerDay
  IN  Pad2(t \div 3600000) \o ":" \o Pad2((t \div 60000) % 60) \o ":"
        \o Pad2((t \div 1000) % 60) \o "." \o Pad3(t % 1000)

\* const { req, ...rest } = logData
Rest(logData) == Without(logData.fields, "req")

MergedObjPresetsWin(l, logData) == Spread(Rest(logData), presets[l])

\* const logObj = { ...this.presets, ...rest }
MergedObj(l, logData) == Spread(presets[l], Rest(logData))

ErrorIdForAlwaysFresh(logObj, fresh) == fresh

\* logObj.errorId || v4()
ErrorIdFor(logObj, fresh) ==
  IF Has(logObj, "errorId") /\ logObj.errorId # EmptyId THEN logObj.errorId ELSE fresh

\* if (response) { ...; logObj.errorId = errorId; ... }
WithErrorId(logObj, response, fresh) ==
  IF response # NoResponse THEN With(logObj, "errorId", ErrorIdFor(logObj, fresh)) ELSE logObj

RepliesSentWithNewId(logObj, response, fresh) ==
  IF response # NoResponse
  THEN << [res |-> response.res, code |-> response.code,
           payload |-> [errorId |-> fresh, success |-> FALSE]] >>
  ELSE << >>

\* res.status(code).send({ errorId, success: false })
RepliesSent(logObj, response, fresh) ==
  IF response # NoResponse
  THEN << [res |-> response.res, code |-> response.code,
           payload |-> [errorId |-> ErrorIdFor(logObj, fresh), success |-> FALSE]] >>
  ELSE << >>

RejectsNothing(logData) == FALSE

\* if (!isObject(logData))
Rejects(logData) == ~isObject(logData)

AdmittedFlipped(l, levelIndex) == levelIndex <= currentLevelIndex \/ isTransient[l]

AdmittedStrict(l, levelIndex) == levelIndex > currentLevelIndex \/ isTransient[l]

AdmittedByLevelOnly(l, levelIndex) == levelIndex >= currentLevelIndex

\* levelIndex >= currentLevelIndex || this.isTransient
Admitted(l, levelIndex) == levelIndex >= currentLevelIndex \/ isTransient[l]

\* !i.includes('/node_modules/')
hasNodeModules(i) == ~(\E n \in 1 .. Len(i) : i[n] = "node_modules")

SynthesizesErrAtThreshold(logObj, levelIndex) ==
  levelIndex >= currentLevelIndex /\ ~Has(logObj, "err")

\* levelIndex >= errorLevel && !logObj.err
SynthesizesErr(logObj, levelIndex) == levelIndex >= errorLevel /\ ~Has(logObj, "err")

\* logObj.err.stack after `if (!logObj.err.stack) logObj.err.stack = new Error().stack ?? ...`
StackOf(err, captured) ==
  IF err.stack # << >> THEN err.stack
  ELSE IF captured # << >> THEN captured
  ELSE << <<"<no error stack>">> >>

\* The block `if (logObj.err) { ... delete logObj.err }`
StripErr(logObj, captured) ==
  IF Has(logObj, "err")
  THEN LET fullStack == Tail(StackOf(logObj.err, captured))
           shortStack == SelectSeq(fullStack, hasNodeModules)
           o1 == With(With(logObj, "fullStack", fullStack), "shortStack", shortStack)
           o2 == IF ~Has(o1, "msg") \/ o1.msg = ""
                 THEN With(o1, "msg", logObj.err.message)
                 ELSE o1
       IN  Without(o2, "err")
  ELSE logObj

\* The body of `if (levelIndex >= currentLevelIndex || this.isTransient)` up to the
\* delivery routing: the record that is buffered or delivered
Enrich(logObj, levelIndex, logData, captured) ==
  LET o1 == With(logObj, "level", LevelAt(levelIndex))
      o2 == IF SynthesizesErr(o1, levelIndex)
            THEN With(o1, "err", [message |-> "", stack |-> captured])
            ELSE o1
      o3 == StripErr(o2, captured)
  IN  IF Has(logData.fields, "req") THEN With(o3, "req", parseReq(logData.fields.req)) ELSE o3

BuffersWhileCollecting(l) == logCollector[l] # "null"

BuffersUntilTriggered(l) == ~isTransientTriggered[l]

\* this.logCollector !== null && !this.isTransientTriggered
Buffers(l) == logCollector[l] # "null" /\ ~isTransientTriggered[l]

TriggersStrict(l, levelIndex) == levelIndex > currentLevelIndex

TriggersAtErrorLevel(l, levelIndex) == levelIndex >= errorLevel

\* the inner `if (levelIndex >= currentLevelIndex)`: this write is the trigger
Triggers(l, levelIndex) == levelIndex >= currentLevelIndex

\* A delivery call: logSingle({logObj, tag}) or logBatch({logObj: array, tag})
Call(kind, l, records) == [kind |-> kind, l |-> l, tag |-> tag[l], records |-> records]

\* The promise of a delivery call.  A batch call holds a reference to the array it
\* was handed (arrays[l]) and `handed` is what the array held at the hand-over.
Promise(kind, l, handed) == [kind |-> kind, l |-> l, handed |-> handed]

\* The synchronous part of write(levelIndex, logData, response), called as `op`;
\* `captured` is what new Error().stack gives during the call.  `id` refers to the
\* record the call builds.
WriteBody(op, l, levelIndex, logData, response, captured) ==
  LET id == nWrites[l] + 1
      merged == MergedObj(l, logData)
      logObj == WithErrorId(merged, response, v4(l, id))
      replies == RepliesSent(merged, response, v4(l, id))
      rec == Enrich(logObj, levelIndex, logData, captured)
  IN
  /\ UNCHANGED <<currentLevelIndex, created, isTransient, presets, tag>>
  /\ IF Rejects(logData)
     THEN \* console.error(...); return Promise.resolve()
          /\ last' = Step(op, l, levelIndex, logData, response,
                          EmptyObject, << >>, << >>, 1, "resolved")
          /\ UNCHANGED <<logCollector, arrays, isTransientTriggered, pending,
                         nSingle, nBatch, nWrites, handedOver>>
     ELSE
          /\ nWrites' = [nWrites EXCEPT ![l] = id]
          /\ IF ~Admitted(l, levelIndex)
             THEN \* return Promise.resolve()
                  /\ last' = Step(op, l, levelIndex, logData, response,
                                  logObj, << >>, replies, 0, "resolved")
                  /\ UNCHANGED <<logCollector, arrays, isTransientTriggered, pending,
                                 nSingle, nBatch, handedOver>>
             ELSE IF Buffers(l)
             THEN \* this.logCollector.push(logObj)
                  /\ arrays' = [arrays EXCEPT ![l] = Append(@, id)]
                  /\ IF Triggers(l, levelIndex)
                     THEN \* isTransientTriggered = true; await logBatch(...)
                          /\ isTransientTriggered' = [isTransientTriggered EXCEPT ![l] = TRUE]
                          /\ pending' = Append(pending, Promise("batch", l, arrays'[l]))
                          /\ nBatch' = [nBatch EXCEPT ![l] = @ + 1]
                          /\ handedOver' = [handedOver EXCEPT ![l] = @ \o arrays'[l]]
                          /\ last' = Step(op, l, levelIndex, logData, response, rec,
                                          << Call("batch", l, arrays'[l]) >>, replies, 0,
                                          "awaiting")
                          /\ UNCHANGED <<logCollector, nSingle>>
                     ELSE \* return Promise.resolve()
                          /\ last' = Step(op, l, levelIndex, logData, response, rec,
                                          << >>, replies, 0, "resolved")
                          /\ UNCHANGED <<logCollector, isTransientTriggered, pending,
                                         nSingle, nBatch, handedOver>>
             ELSE \* return logSingle({ logObj, tag: this.tag })
                  /\ pending' = Append(pending, Promise("single", l, <<id>>))
                  /\ nSingle' = [nSingle EXCEPT ![l] = @ + 1]
                  /\ handedOver' = [handedOver EXCEPT ![l] = Append(@, id)]
                  /\ last' = Step(op, l, levelIndex, logData, response,
                                  rec, << Call("single", l, <<id>>) >>, replies, 0,
                                  "awaiting")
                  /\ UNCHANGED <<logCollector, arrays, isTransientTriggered, nBatch>>

\* logger.trace(...) .. logger.security(...): write bound to a level index
Write(l, levelIndex, logData, response, captured) ==
  /\ l \in created
  /\ WriteBody("write", l, levelIndex, logData, response, captured)
  /\ UNCHANGED timers

WriteOutcomeSwallowed(kind, outcome) == "resolved"

\* How write's own promise settles once the delivery promise has: a rejected
\* `await logBatch(...)` throws out of write, a resolved one runs on to
\* `return Promise.resolve()`, and `return logSingle(...)` adopts the promise
WriteOutcome(kind, outcome) == outcome

\* The delivery promise of pending[i] settles.  A resolved logBatch resumes write
\* after its await (this.logCollector = null); a rejected one makes write throw
\* there.  write's own promise settles the same way.
Settle(i, outcome) ==
  /\ i \in 1 .. Len(pending)
  /\ pending' = SubSeq(pending, 1, i - 1) \o SubSeq(pending, i + 1, Len(pending))
  /\ IF pending[i].kind = "batch" /\ outcome = "resolved"
     THEN logCollector' = [logCollector EXCEPT ![pending[i].l] = "null"]
     ELSE UNCHANGED logCollector
  /\ last' = [NoStep("settle", pending[i].l, WriteOutcome(pending[i].kind, outcome)) EXCEPT
                !.logData = Obj([kind |-> pending[i].kind, outcome |-> outcome,
                                 records |-> pending[i].handed])]
  /\ UNCHANGED <<currentLevelIndex, created, isTransient, arrays, isTransientTriggered,
                 presets, tag, timers, nSingle, nBatch, nWrites, handedOver>>

\* ------------------------------------------------------------------- timers
\* logger.time(label): this.timers[label] = Date.now(), which reads t
Time(l, label, t) ==
  /\ l \in created
  /\ timers' = [timers EXCEPT ![l] = With(@, label, t)]
  /\ last' = NoStep("time", l, "")
  /\ UNCHANGED <<currentLevelIndex, created, isTransient, logCollector, arrays,
                 isTransientTriggered, presets, tag, pending, nSingle,
                 nBatch, nWrites, handedOver>>

DurationUnchecked(l, label, t, captured) ==
  formatMilliseconds(IF Has(timers[l], label) THEN t - timers[l][label] ELSE t)

\* The duration value of writeTimeEnd: the formatted time since time(label), or the
\* parts of the template `Missing label "${label}" in timeEnd()\n${stack}`
Duration(l, label, t, captured) ==
  IF Has(timers[l], label)
  THEN formatMilliseconds(t - timers[l][label])
  ELSE <<"Missing label \"", label, "\" in timeEnd()\n", captured>>

\* The logData writeTimeEnd passes to write
TimeEndData(l, label, t, extraLogDat, captured) ==
  LET extraLogData == IF isObject(extraLogDat) THEN extraLogDat.fields ELSE EmptyObject
      msg == IF Has(extraLogData, "msg") /\ extraLogData.msg # ""
             THEN "Timer - " \o extraLogData.msg
             ELSE "Timer"
  IN  Obj(Spread(extraLogData,
                 [duration |-> Duration(l, label, t, captured), msg |-> msg,
                  timerLabel |-> label]))

\* logger.timeEnd(label, level, extraLogDat); Date.now() reads t
TimeEnd(l, label, level, extraLogDat, t, captured) ==
  /\ l \in created
  /\ WriteBody("timeEnd", l, IndexOf(level), TimeEndData(l, label, t, extraLogDat, captured),
               NoResponse, captured)
  /\ UNCHANGED timers

\* --------------------------------------------------------------------- spec
RECURSIVE Sum(_, _)
Sum(f, S) == IF S = {} THEN 0 ELSE LET x == CHOOSE y \in S : TRUE IN f[x] + Sum(f, S \ {x})

Budget == Sum(nWrites, LoggerIds) < MaxWrites

Next ==
  \/ \E l \in OneLogger, options \in LoggerOptions : Create(l, options)
  \/ \E newLevelName \in SetLevelArgs : SetLevel(newLevelName)
  \/ \E l \in OneLogger, levelIndex \in LevelIndexes, logData \in Events,
        response \in Responses, captured \in Captures :
       Budget /\ Write(l, levelIndex, logData, response, captured)
  \/ \E i \in 1 .. Len(pending), outcome \in {"resolved", "rejected"} : Settle(i, outcome)

Spec == Init /\ [][Next]_vars

\* ---------------------------------------------- a program that uses timers
\* The model stops issuing writes (timeEnd included) after MaxTimerWrites of them
MaxTimerWrites == 2

TimersBudget == Sum(nWrites, LoggerIds) < MaxTimerWrites

\* The events written next to the timers
TimerEvents == { PlainEvent, NotAnObject("string") }

NextTimers ==
  \/ \E l \in OneLogger, options \in LoggerOptions : Create(l, options)
  \/ \E newLevelName \in SetLevelArgs : SetLevel(newLevelName)
  \/ \E l \in OneLogger, levelIndex \in LevelIndexes, logData \in TimerEvents :
       TimersBudget /\ Write(l, levelIndex, logData, NoResponse, NodeStack)
  \/ \E i \in 1 .. Len(pending), outcome \in {"resolved", "rejected"} : Settle(i, outcome)
  \/ \E l \in OneLogger, label \in Labels, t \in Clock : Time(l, label, t)
  \/ \E l \in OneLogger, label \in Labels, i \in LevelIndexes,
        extraLogDat \in ExtraLogData, t \in Clock, captured \in Captures :
       TimersBudget /\ TimeEnd(l, label, LevelAt(i), extraLogDat, t, captured)

SpecTimers == Init /\ [][NextTimers]_vars

\* ----------------------------------------------- a program with two Loggers
\* The model stops issuing writes after MaxLoggerWrites of them, over both Loggers
MaxLoggerWrites == 2

LoggersBudget == Sum(nWrites, LoggerIds) < MaxLoggerWrites

\* Two Loggers of one process share the threshold; each has its own fields
NextLoggers ==
  \/ \E l \in LoggerIds, options \in LoggerOptions : Create(l, options)
  \/ \E newLevelName \in SetLevelArgs : SetLevel(newLevelName)
  \/ \E l \in LoggerIds, levelIndex \in LevelIndexes :
       LoggersBudget /\ Write(l, levelIndex, PlainEvent, NoResponse, NodeStack)
  \/ \E i \in 1 .. Len(pending), outcome \in {"resolved", "rejected"} : Settle(i, outcome)

SpecLoggers == Init /\ [][NextLoggers]_vars

\* ------------------------------------------ a program that writes one record
\* The model stops issuing writes after MaxRecordWrites of them
MaxRecordWrites == 2

RecordsBudget == Sum(nWrites, LoggerIds) < MaxRecordWrites

\* An event whose keys meet the presets' keys, with a falsy msg
KeyedEvent == Obj([module |-> "emod", errorId |-> <<"event", "", 1>>, msg |-> "", user |-> "u"])

\* An event with a request, a hand-built err and a falsy errorId
ReqEvent == Obj([req |-> SomeReq, err |-> BareErr, errorId |-> EmptyId, msg |-> "kept"])

RecordEvents == { PlainEvent, ErrEvent, KeyedEvent, ReqEvent }

RecordOptions ==
  LoggerOptions \cup { Options(FALSE, Obj([errorId |-> EmptyId, host |-> "h"]), FALSE) }

NextRecords ==
  \/ \E l \in OneLogger, options \in RecordOptions : Create(l, options)
  \/ \E l \in OneLogger, levelIndex \in LevelIndexes, logData \in RecordEvents,
        response \in Responses, captured \in AllCaptures :
       RecordsBudget /\ Write(l, levelIndex, logData, response, captured)
  \/ \E i \in 1 .. Len(pending), outcome \in {"resolved", "rejected"} : Settle(i, outcome)

SpecRecords == Init /\ [][NextRecords]_vars


\* ------------------------------------------------------------------ claims
\* The Logger of the last step
L == last.l

\* The last step was a write of a record-like event (timeEnd writes one too)
WroteRecord == last.op \in {"write", "timeEnd"} /\ isObject(last.logData)

\* The threshold when the last step ran
ThresholdAt == last.before.currentLevelIndex

\* The records a Logger's first n writes built, in write order
Ids(n) == [i \in 1 .. n |-> i]

\* The last step made no delivery call
DeliveredNothing ==
  /\ last.calls = << >>
  /\ nSingle = last.before.nSingle
  /\ nBatch = last.before.nBatch
  /\ pending = last.before.pending

\* The last step made one logSingle call, for the record it built, and no logBatch call
DeliveredSingle ==
  /\ last.calls = << Call("single", L, <<nWrites[L]>>) >>
  /\ nSingle = [last.before.nSingle EXCEPT ![L] = @ + 1]
  /\ nBatch = last.before.nBatch
  /\ pending = Append(last.before.pending, Promise("single", L, <<nWrites[L]>>))

\* C1: on a non-transient Logger, a write of a record-like event at a level below
\* the current threshold makes no delivery call, single or batch.
C1_BelowThresholdNoDelivery ==
  (WroteRecord /\ ~isTransient[L] /\ last.levelIndex < ThresholdAt) => DeliveredNothing

C1_Witness ==
  /\ WroteRecord /\ ~isTransient[L] /\ last.levelIndex < ThresholdAt
  /\ last.op = "write"

\* C2: on a non-transient Logger, a write of a record-like event at a level at or
\* above the current threshold makes exactly one single-record delivery call and no
\* batch call, and the delivered record has no err field.
C2_AtThresholdOneSingle ==
  (WroteRecord /\ ~isTransient[L] /\ last.levelIndex >= ThresholdAt) =>
    /\ DeliveredSingle
    /\ ~Has(last.logObj, "err")

C2_Witness ==
  /\ WroteRecord /\ ~isTransient[L] /\ last.levelIndex = ThresholdAt
  /\ Has(last.logData.fields, "err")
  /\ Len(last.calls) = 1

\* C3: on a transient Logger that has not triggered, a write of a record-like event
\* below the threshold appends exactly one record to the buffer and delivers nothing;
\* so while a transient Logger has not triggered it has made no delivery call and
\* its buffer holds one record per write so far, in write order.
C3_BuffersUntilTriggered ==
  /\ (WroteRecord /\ isTransient[L] /\ ~last.before.isTransientTriggered[L]
        /\ last.levelIndex < ThresholdAt) =>
       /\ arrays[L] = Append(last.before.arrays[L], nWrites[L])
       /\ DeliveredNothing
       /\ ~isTransientTriggered[L]
  /\ \A l \in created :
       (isTransient[l] /\ ~isTransientTriggered[l]) =>
         /\ nSingle[l] = 0 /\ nBatch[l] = 0
         /\ logCollector[l] = "array"
         /\ arrays[l] = Ids(nWrites[l])

C3_Witness ==
  /\ WroteRecord /\ isTransient[L] /\ ~isTransientTriggered[L]
  /\ last.levelIndex < ThresholdAt
  /\ arrays[L] = <<1, 2>>

\* C4: on a transient Logger that has not triggered, the first write at or above the
\* threshold makes exactly one batch call, tagged with the Logger's tag, whose records
\* are all the records written to the Logger so far in write order, the triggering
\* one last; it makes no single-record call.
C4_TriggerFlushesAll ==
  (WroteRecord /\ isTransient[L] /\ ~last.before.isTransientTriggered[L]
     /\ last.levelIndex >= ThresholdAt) =>
    /\ Len(last.calls) = 1
    /\ last.calls[1].kind = "batch"
    /\ last.calls[1].tag = <<"svc", "-", NodeEnv>>
    /\ last.calls[1].records = Ids(nWrites[L])
    /\ last.calls[1].records = Append(last.before.arrays[L], nWrites[L])
    /\ nBatch = [last.before.nBatch EXCEPT ![L] = @ + 1]
    /\ nSingle = last.before.nSingle
    /\ isTransientTriggered[L]

C4_Witness ==
  /\ WroteRecord /\ isTransient[L] /\ ~last.before.isTransientTriggered[L]
  /\ last.levelIndex >= ThresholdAt
  /\ Len(last.before.arrays[L]) = 2
  /\ Len(last.calls) = 1

\* C5: once a transient Logger has triggered, every later write of a record-like
\* event, at any level, is delivered at once as exactly one single-record call and is
\* neither buffered nor batched.
C5_PassThroughAfterTrigger ==
  (WroteRecord /\ last.before.isTransientTriggered[L]) =>
    /\ DeliveredSingle
    /\ arrays = last.before.arrays
    /\ logCollector = last.before.logCollector

C5_Witness ==
  /\ WroteRecord /\ last.before.isTransientTriggered[L]
  /\ last.levelIndex < ThresholdAt
  /\ Len(last.calls) = 1

\* C6: a Logger makes at most one batch call in its lifetime, whatever the order of
\* writes, settlements and setLevel calls, and isTransientTriggered never goes back
\* from true.
C6_TriggerAtMostOnce ==
  \A l \in LoggerIds :
    /\ nBatch[l] <= 1
    /\ last.before.isTransientTriggered[l] => isTransientTriggered[l]

\* a second write at or above the threshold while the batch is still in flight
C6_Witness ==
  /\ WroteRecord /\ last.before.isTransientTriggered[L]
  /\ last.levelIndex >= ThresholdAt
  /\ \E i \in 1 .. Len(pending) : pending[i].kind = "batch" /\ pending[i].l = L
  /\ nBatch[L] = 1

\* The argument of the last setLevel call
SetLevelArg == last.logData.fields.newLevelName

\* Whether the last write was let through to delivery: delivered, or made the trigger
LetThrough == last.calls # << >>

\* C7: setLevel with the name of a level returns the name that was current before
\* the call and makes getLevel return the new name; nothing but setLevel changes the
\* threshold, and every write, on any Logger, is admitted by the threshold current
\* when it runs.
C7_SetLevelChangesAdmission ==
  /\ (last.op = "setLevel" /\ IndexOf(SetLevelArg) >= 0) =>
       /\ last.ret = LevelAt(last.before.currentLevelIndex)
       /\ getLevel = SetLevelArg
  /\ last.op # "setLevel" => currentLevelIndex = last.before.currentLevelIndex
  /\ (WroteRecord /\ ~last.before.isTransientTriggered[L]) =>
       (LetThrough <=> last.levelIndex >= currentLevelIndex)

C7_Witness ==
  /\ last.op = "setLevel" /\ IndexOf(SetLevelArg) >= 0
  /\ last.ret # SetLevelArg
  /\ created # {}

\* C8: setLevel with no argument, a falsy argument or a name that is no level leaves
\* the threshold unchanged and returns the current level name.
C8_SetLevelIgnoresUnknown ==
  (last.op = "setLevel" /\ IndexOf(SetLevelArg) < 0) =>
    /\ currentLevelIndex = last.before.currentLevelIndex
    /\ last.ret = getLevel

C8_Witness == last.op = "setLevel" /\ SetLevelArg = "verbose"

\* C9 as claimed: whenever a responseWrapper is passed to write, one reply is sent,
\* with the given status code and the payload {errorId, success: false}.
C9_ReplyOnEveryWrite ==
  (last.op = "write" /\ last.response # NoResponse) =>
    /\ Len(last.replies) = 1
    /\ last.replies[1].code = last.response.code
    /\ last.replies[1].payload.success = FALSE

\* C9, amended: when a responseWrapper is passed to write with a record-like event,
\* exactly one reply is sent, to the given target with the given status code and the
\* payload {errorId, success: false}, errorId being the record's; at any level and in
\* any mode of the Logger.
C9_ReplyOnRecordWrite ==
  (WroteRecord /\ last.response # NoResponse) =>
    last.replies = << [res |-> last.response.res, code |-> last.response.code,
                       payload |-> [errorId |-> last.logObj.errorId, success |-> FALSE]] >>

\* a reply from a write the threshold drops
C9_Witness ==
  /\ WroteRecord /\ last.response # NoResponse
  /\ ~isTransient[L] /\ last.levelIndex < ThresholdAt
  /\ Len(last.replies) = 1

\* C10: a write whose event is not record-like returns a resolved promise and does
\* nothing else: no delivery call, nothing buffered, no trigger, threshold and timers
\* unchanged.
C10_NonRecordIsNoOp ==
  (last.op = "write" /\ ~isObject(last.logData)) =>
    /\ last.ret = "resolved"
    /\ DeliveredNothing
    /\ arrays = last.before.arrays
    /\ logCollector = last.before.logCollector
    /\ isTransientTriggered = last.before.isTransientTriggered
    /\ currentLevelIndex = last.before.currentLevelIndex
    /\ timers = last.before.timers
    /\ nWrites = last.before.nWrites

\* a non-record write at the threshold, on a transient Logger with a record buffered
C10_Witness ==
  /\ last.op = "write" /\ ~isObject(last.logData)
  /\ isTransient[L] /\ ~isTransientTriggered[L]
  /\ last.levelIndex >= ThresholdAt
  /\ arrays[L] # << >>
  /\ Has(timers[L], "db")

\* No value occurs twice in the sequence s
NoRepeat(s) == \A i, j \in 1 .. Len(s) : s[i] = s[j] => i = j

\* The last step settled a delivery promise with a failure
DeliveryFailed == last.op = "settle" /\ last.logData.fields.outcome = "rejected"

\* C11: when a single or batch delivery fails, the write that issued it fails with
\* that failure, and the core makes no delivery call in response: no record is
\* ever handed to delivery a second time.
C11_FailureSurfacedNoRetry ==
  /\ DeliveryFailed =>
       /\ last.ret = "rejected"
       /\ last.calls = << >>
       /\ nSingle = last.before.nSingle
       /\ nBatch = last.before.nBatch
       /\ handedOver = last.before.handedOver
       /\ Len(pending) = Len(last.before.pending) - 1
  /\ \A l \in LoggerIds : NoRepeat(handedOver[l])

\* a batch of two records fails while a later single delivery is still in flight
C11_Witness ==
  /\ DeliveryFailed
  /\ last.logData.fields.kind = "batch"
  /\ Len(last.logData.fields.records) = 2
  /\ Len(pending) = 1

\* The batch call of Logger l has not settled yet
BatchInFlight(l) == \E i \in 1 .. Len(pending) : pending[i].kind = "batch" /\ pending[i].l = l

\* C12 as claimed: once a transient Logger has triggered and the triggering write
\* has completed, with success or with failure, its logCollector is absent.
C12_BufferAbsentAfterTrigger ==
  \A l \in created :
    (isTransientTriggered[l] /\ ~BatchInFlight(l)) => logCollector[l] = "null"

\* The label of the last timeEnd call
TimerLabel == last.logData.fields.timerLabel

\* The last write was routed as write routes a record at its level: dropped or
\* delivered singly by a non-transient Logger, buffered or made the trigger by a
\* transient Logger that had not triggered, delivered singly after the trigger
RoutedAsWrite ==
  IF ~isTransient[L]
  THEN IF last.levelIndex < ThresholdAt THEN DeliveredNothing ELSE DeliveredSingle
  ELSE IF last.before.isTransientTriggered[L]
  THEN DeliveredSingle /\ arrays = last.before.arrays
  ELSE /\ arrays[L] = Append(last.before.arrays[L], nWrites[L])
       /\ IF last.levelIndex < ThresholdAt
          THEN DeliveredNothing
          ELSE last.calls = << Call("batch", L, arrays[L]) >>

\* C13: timeEnd with a label that time was never called with does not raise; it
\* writes a record at the given level, routed as any write at that level, whose
\* duration is the diagnostic text naming the label, not a formatted duration, and
\* whose timerLabel is the label.
C13_TimeEndMissingLabel ==
  (last.op = "timeEnd" /\ ~Has(last.before.timers[L], TimerLabel)) =>
    /\ last.ret \in {"resolved", "awaiting"}
    /\ \E captured \in AllCaptures :
         <<"Missing label \"", TimerLabel, "\" in timeEnd()\n", captured>> = last.logObj.duration
    /\ \A t0, t1 \in Clock : last.logObj.duration # formatMilliseconds(t1 - t0)
    /\ last.logObj.timerLabel = TimerLabel
    /\ nWrites[L] = last.before.nWrites[L] + 1
    /\ RoutedAsWrite

\* a missing label on a Logger that delivers the record
C13_Witness ==
  /\ last.op = "timeEnd" /\ ~Has(last.before.timers[L], TimerLabel)
  /\ TimerLabel = "db"
  /\ Len(last.calls) = 1
  /\ last.calls[1].kind = "single"

\* The fields of the event of the last write
Event == last.logData.fields

\* The last step was a write of a record-like event that write admitted
WasAdmitted == WroteRecord /\ (last.levelIndex >= ThresholdAt \/ isTransient[L])

CarriesStacks == Has(last.logObj, "fullStack") /\ Has(last.logObj, "shortStack")

\* C14: the record of an admitted write of an event with no err carries fullStack
\* and shortStack exactly when the level index is at or above that of 'error',
\* whatever the threshold; the record of an admitted write of an event with err
\* carries them at every level.
C14_StacksFromErrorLevelUp ==
  /\ (WasAdmitted /\ ~Has(Event, "err")) =>
       /\ CarriesStacks <=> last.levelIndex >= errorLevel
       /\ Has(last.logObj, "fullStack") <=> Has(last.logObj, "shortStack")
  /\ (WasAdmitted /\ Has(Event, "err")) => CarriesStacks

\* an event with no err, written at 'error' under a higher threshold
C14_Witness ==
  /\ WasAdmitted /\ ~Has(Event, "err")
  /\ last.levelIndex = errorLevel /\ ThresholdAt > errorLevel
  /\ CarriesStacks
  /\ last.logObj.fullStack # << >>

\* The errorId the last write finds: the event's when the event has the key, else
\* the presets'; a falsy one counts as none
FoundErrorId ==
  IF Has(Event, "errorId") THEN Event.errorId
  ELSE IF Has(presets[L], "errorId") THEN presets[L].errorId
  ELSE EmptyId

\* C15: for a write of a record-like event with a responseWrapper, the errorId of
\* the reply is the errorId of the record built for the event; it is the errorId
\* found in the presets and event when there is one, and a fresh identifier
\* otherwise.
C15_ReplyCarriesRecordErrorId ==
  (WroteRecord /\ last.response # NoResponse) =>
    /\ Len(last.replies) = 1
    /\ Has(last.logObj, "errorId")
    /\ last.replies[1].payload.errorId = last.logObj.errorId
    /\ last.logObj.errorId =
         IF FoundErrorId # EmptyId THEN FoundErrorId ELSE v4(L, nWrites[L])

\* the presets' errorId reused in the reply and in a delivered record
C15_Witness ==
  /\ WroteRecord /\ last.response # NoResponse
  /\ ~Has(Event, "errorId")
  /\ Has(presets[L], "errorId") /\ presets[L].errorId # EmptyId
  /\ last.replies[1].payload.errorId = presets[L].errorId
  /\ Len(last.calls) = 1

\* The keys of the record that statements of write after the merge may set or
\* delete in the last write: errorId with a responseWrapper, the others once the
\* event is admitted
Rewritten ==
  (IF last.response # NoResponse THEN {"errorId"} ELSE {}) \cup
  (IF WasAdmitted THEN {"level", "err", "fullStack", "shortStack", "msg", "req"} ELSE {})

\* The keys the merge gives the record: the presets' and the event's other than req
MergedKeys == (DOMAIN presets[L]) \cup ((DOMAIN Event) \ {"req"})

\* The record of the last write has every merged key, and no req of the event
HasMergedKeys ==
  /\ \A k \in MergedKeys \ Rewritten : Has(last.logObj, k)
  /\ ~WasAdmitted => DOMAIN last.logObj = MergedKeys \cup Rewritten

\* C17 as claimed: the record of a write has every key of the presets and every key
\* of the event other than req, and a key of both carries the presets' value.
C17_PresetsWin ==
  WroteRecord =>
    /\ HasMergedKeys
    /\ \A k \in (DOMAIN presets[L]) \ Rewritten : last.logObj[k] = presets[L][k]
    /\ \A k \in (MergedKeys \ DOMAIN presets[L]) \ Rewritten : last.logObj[k] = Event[k]

\* C17, amended: the record of a write has every key of the presets and every key
\* of the event other than req, and a key of both carries the event's value.
C17_EventWins ==
  WroteRecord =>
    /\ HasMergedKeys
    /\ \A k \in ((DOMAIN Event) \ {"req"}) \ Rewritten : last.logObj[k] = Event[k]
    /\ \A k \in (MergedKeys \ DOMAIN Event) \ Rewritten : last.logObj[k] = presets[L][k]

\* an event that sets module and errorId on a Logger whose presets set them too,
\* dropped by the threshold so that no later statement touches the record
C17_Witness ==
  /\ WroteRecord /\ ~WasAdmitted /\ last.response = NoResponse
  /\ Has(Event, "module") /\ Has(Event, "errorId") /\ Has(presets[L], "errorId")
  /\ presets[L].module # Event.module
  /\ last.logObj.module = Event.module
  /\ last.logObj.errorId = Event.errorId
  /\ Has(last.logObj, "trackId")

\* C16: a non-transient Logger never buffers: in every state its logCollector is
\* absent, its isTransientTriggered flag is not true, its array is empty, and it has
\* made and has in flight no batch call, whatever other Loggers of the process do.
C16_NonTransientNeverBuffers ==
  \A l \in created :
    ~isTransient[l] =>
      /\ logCollector[l] = "null"
      /\ ~isTransientTriggered[l]
      /\ arrays[l] = << >>
      /\ nBatch[l] = 0
      /\ ~BatchInFlight(l)

\* a non-transient Logger delivers at the threshold next to a transient Logger that
\* has triggered
C16_Witness ==
  /\ created = {"A", "B"}
  /\ ~isTransient["A"] /\ isTransient["B"] /\ isTransientTriggered["B"]
  /\ WroteRecord /\ L = "A" /\ last.levelIndex >= ThresholdAt
  /\ nSingle["A"] = 1
  /\ nBatch["B"] = 1

\* C18: setLevel, whatever its argument, makes no delivery call and leaves every
\* Logger's buffer, isTransientTriggered flag and timers as they were; a batch call
\* is made only by a write whose level meets the threshold current at that write.
C18_SetLevelTouchesNoLogger ==
  /\ last.op = "setLevel" =>
       /\ DeliveredNothing
       /\ arrays = last.before.arrays
       /\ logCollector = last.before.logCollector
       /\ isTransientTriggered = last.before.isTransientTriggered
       /\ timers = last.before.timers
       /\ handedOver = last.before.handedOver
  /\ \A l \in LoggerIds :
       nBatch[l] # last.before.nBatch[l] =>
         WroteRecord /\ L = l /\ last.levelIndex >= ThresholdAt

\* the threshold is lowered to the lowest level while a transient Logger holds two
\* buffered records and a timer; nothing is flushed
C18_Witness ==
  /\ last.op = "setLevel"
  /\ currentLevelIndex = 0 /\ last.before.currentLevelIndex > 0
  /\ \E l \in created :
       /\ isTransient[l] /\ ~isTransientTriggered[l]
       /\ Len(arrays[l]) = 2
       /\ Has(timers[l], "db")
       /\ nBatch[l] = 0

\* The records in the sequence s
Range(s) == {s[i] : i \in 1 .. Len(s)}

\* C19: on a transient Logger no record is handed to delivery twice, in a batch or
\* singly; nothing is handed over before the trigger, and in every state after the
\* trigger every record written to the Logger so far has been handed over once.
C19_HandedExactlyOnce ==
  \A l \in created :
    isTransient[l] =>
      /\ NoRepeat(handedOver[l])
      /\ ~isTransientTriggered[l] => handedOver[l] = << >>
      /\ isTransientTriggered[l] => Range(handedOver[l]) = 1 .. nWrites[l]

\* two records in the batch and a third delivered singly
C19_Witness ==
  \E l \in created :
    /\ isTransient[l] /\ isTransientTriggered[l]
    /\ handedOver[l] = <<1, 2, 3>>
    /\ arrays[l] = <<1, 2>>
    /\ nSingle[l] = 1

\* The batch call of Logger l had not settled when the last step began
BatchWasInFlight(l) ==
  \E i \in 1 .. Len(last.before.pending) :
    last.before.pending[i].kind = "batch" /\ last.before.pending[i].l = l

\* C20: a write on a transient Logger whose batch call is still in flight is not
\* appended to the buffer and is handed to single-record delivery at once; the
\* array handed to the batch call holds what it held at the hand-over for as long
\* as the call is in flight.
C20_WriteDuringBatch ==
  /\ (WroteRecord /\ BatchWasInFlight(L)) =>
       /\ last.before.isTransientTriggered[L]
       /\ arrays = last.before.arrays
       /\ DeliveredSingle
  /\ \A i \in 1 .. Len(pending) :
       pending[i].kind = "batch" => pending[i].handed = arrays[pending[i].l]

\* the single delivery of a later record completes while the batch that precedes it
\* is still in flight
C20_Witness ==
  /\ last.op = "settle" /\ last.ret = "resolved"
  /\ last.logData.fields.kind = "single"
  /\ BatchInFlight(L)
  /\ \A id \in Range(arrays[L]) : id < last.logData.fields.records[1]

====
